---- MODULE Spec2Model ----
(***************************************************************************)
(* Model of golden_parser_aib.py, the AIB bank statement parser.           *)
(*                                                                         *)
(* Representation.                                                         *)
(*   - A Python str is a sequence of one-character strings; "" is << >>.   *)
(*   - A money amount (a Python float with two decimals) is an integer     *)
(*     number of cents; 0.0 and -0.0 are both 0.                           *)
(*   - A coordinate (a Python float) is an integer number of half points:  *)
(*     649 stands for x0 = 324.5.                                          *)
(*   - None is the record None; a dict is a record.                        *)
(***************************************************************************)
EXTENDS Integers, Sequences, FiniteSets, TLC

VARIABLES
    call,             \* harness: the function called and its arguments
    st,               \* harness: "called" before the body ran, "returned" after
    ret,              \* harness: the value returned
    pc,               \* process / read_pdf_and_extract: position in the code
    input_path,       \* process: the input path (kind, name)
    combined,         \* process: the combined flag (line 300 may set it)
    separate,         \* process: the separate flag
    debug,            \* process: the debug flag
    pdfs,             \* process: the list of documents to read (line 292-295)
    pdf_i,            \* process: index of the document of the loop at line 305
    doc_open,         \* read_pdf_and_extract: the handle of line 222 is open
    p,                \* read_pdf_and_extract: page index of the loop at line 226
    all_txs,          \* read_pdf_and_extract: the list of line 223
    tx_page,          \* history: the page each element of all_txs came from
    all_transactions, \* process: the list of line 303
    written           \* the CSV files written so far, in order

harness_vars == <<call, st, ret>>
machine_vars == <<pc, input_path, combined, separate, debug, pdfs, pdf_i,
                  doc_open, p, all_txs, tx_page, all_transactions, written>>
vars == <<call, st, ret, pc, input_path, combined, separate, debug, pdfs, pdf_i,
          doc_open, p, all_txs, tx_page, all_transactions, written>>

None == [none |-> TRUE]

(***************************************************************************)
(* Python str methods, on sequences of characters.                         *)
(***************************************************************************)
Digits == <<"0", "1", "2", "3", "4", "5", "6", "7", "8", "9">>
DigitSet == {Digits[i] : i \in 1..10}
LowerCase == <<"a", "b", "c", "d", "e", "f", "g", "h", "i", "j", "k", "l", "m",
               "n", "o", "p", "q", "r", "s", "t", "u", "v", "w", "x", "y", "z">>
UpperCase == <<"A", "B", "C", "D", "E", "F", "G", "H", "I", "J", "K", "L", "M",
               "N", "O", "P", "Q", "R", "S", "T", "U", "V", "W", "X", "Y", "Z">>
Whitespace == {" ", "\t", "\n"}

SetMin(S) == CHOOSE x \in S : \A y \in S : x <= y
SetMax(S) == CHOOSE x \in S : \A y \in S : x >= y

DigitVal(c) == (CHOOSE i \in 1..10 : Digits[i] = c) - 1

\* c.lower() and c.upper() of one character
LowerSet == {LowerCase[i] : i \in 1..26}
UpperSet == {UpperCase[i] : i \in 1..26}
ToLower == [c \in UpperSet |-> LowerCase[CHOOSE i \in 1..26 : UpperCase[i] = c]]
ToUpper == [c \in LowerSet |-> UpperCase[CHOOSE i \in 1..26 : LowerCase[i] = c]]
lower_char(c) == IF c \in UpperSet THEN ToLower[c] ELSE c
upper_char(c) == IF c \in LowerSet THEN ToUpper[c] ELSE c

lower(s) == [i \in 1..Len(s) |-> lower_char(s[i])]
upper(s) == [i \in 1..Len(s) |-> upper_char(s[i])]

\* s.strip()
strip(s) ==
    LET keep == {i \in 1..Len(s) : s[i] \notin Whitespace}
    IN  IF keep = {} THEN << >> ELSE SubSeq(s, SetMin(keep), SetMax(keep))

\* s.startswith(pre)
startswith(s, pre) == Len(s) >= Len(pre) /\ SubSeq(s, 1, Len(pre)) = pre

\* sub in s
contains(s, sub) ==
    \E i \in 1..(Len(s) - Len(sub) + 1) : SubSeq(s, i, i + Len(sub) - 1) = sub

\* s.replace(old, new), old non-empty: left to right, non-overlapping
RECURSIVE replace(_, _, _)
replace(s, old, new) ==
    IF Len(s) < Len(old) THEN s
    ELSE IF SubSeq(s, 1, Len(old)) = old
         THEN new \o replace(SubSeq(s, Len(old) + 1, Len(s)), old, new)
         ELSE <<s[1]>> \o replace(Tail(s), old, new)

\* sep.join(parts)
RECURSIVE join(_, _)
join(sep, parts) ==
    IF parts = << >> THEN << >>
    ELSE IF Len(parts) = 1 THEN parts[1]
    ELSE parts[1] \o sep \o join(sep, Tail(parts))

\* s.isdigit()
isdigit(s) == s # << >> /\ \A i \in 1..Len(s) : s[i] \in DigitSet

\* the value of a non-empty string of decimal digits
RECURSIVE DecVal(_)
DecVal(s) ==
    IF s = << >> THEN 0 ELSE 10 * DecVal(SubSeq(s, 1, Len(s) - 1)) + DigitVal(s[Len(s)])

\* the decimal digits of n >= 0
RECURSIVE DecStr(_)
DecStr(n) ==
    IF n < 10 THEN <<Digits[n + 1]>> ELSE DecStr(n \div 10) \o <<Digits[(n % 10) + 1]>>

\* f"{amount:.2f}" of an amount in cents
Format2f(amount) ==
    LET a == IF amount < 0 THEN -amount ELSE amount
    IN  (IF amount < 0 THEN <<"-">> ELSE << >>)
        \o DecStr(a \div 100) \o <<".">>
        \o <<Digits[((a % 100) \div 10) + 1], Digits[(a % 10) + 1]>>

\* float(s), in cents: optional surrounding whitespace, an optional sign, digits
\* with an optional fraction of at most two digits (the inputs of the model hold
\* no longer fraction, no exponent, no inf/nan); anything else is a ValueError.
FloatError == [ok |-> FALSE, val |-> 0]
\* the integer part ip and the fraction fp
FloatDigits(ip, fp) ==
    IF /\ \A i \in 1..Len(ip) : ip[i] \in DigitSet
       /\ \A i \in 1..Len(fp) : fp[i] \in DigitSet
       /\ Len(ip) + Len(fp) >= 1
       /\ Len(fp) <= 2
    THEN [ok |-> TRUE,
          val |-> 100 * DecVal(ip)
                  + (IF Len(fp) = 1 THEN 10 * DecVal(fp) ELSE DecVal(fp))]
    ELSE FloatError
\* the unsigned text, with the positions dots of "." in it
FloatSplit(body, dots) ==
    IF dots = {} THEN FloatDigits(body, << >>)
    ELSE IF Cardinality(dots) > 1 THEN FloatError
    ELSE FloatDigits(SubSeq(body, 1, SetMin(dots) - 1),
                     SubSeq(body, SetMin(dots) + 1, Len(body)))
FloatUnsigned(body) == FloatSplit(body, {i \in 1..Len(body) : body[i] = "."})
FloatNegate(f) == [ok |-> f.ok, val |-> -f.val]
FloatStripped(t) ==
    IF t # << >> /\ t[1] = "-" THEN FloatNegate(FloatUnsigned(Tail(t)))
    ELSE IF t # << >> /\ t[1] = "+" THEN FloatUnsigned(Tail(t))
    ELSE FloatUnsigned(t)
float(s) == FloatStripped(strip(s))

(***************************************************************************)
(* Constants & Config (lines 24-46).                                       *)
(***************************************************************************)
MONTHS == { <<"J","a","n">>, <<"F","e","b">>, <<"M","a","r">>, <<"A","p","r">>,
            <<"M","a","y">>, <<"J","u","n">>, <<"J","u","l">>, <<"A","u","g">>,
            <<"S","e","p">>, <<"O","c","t">>, <<"N","o","v">>, <<"D","e","c">> }

\* AMOUNT_RE.match(s): ^\d+\.\d{2}$ ; "$" also matches before one trailing newline
AMOUNT_RE_match(s) ==
    LET t == IF s # << >> /\ s[Len(s)] = "\n" THEN SubSeq(s, 1, Len(s) - 1) ELSE s
    IN  /\ Len(t) >= 4
        /\ t[Len(t) - 2] = "."
        /\ \A i \in 1..Len(t) : i # Len(t) - 2 => t[i] \in DigitSet

DEBIT_MIN == 250
DEBIT_MAX == 324
CREDIT_MIN == 325
CREDIT_MAX == 350
BALANCE_MIN == 395

\* mutant of InBand: the upper edge of a band left out
InBand_halfOpen(x0, xmin, xmax) == 2 * xmin <= x0 /\ x0 < 2 * xmax

\* xmin <= x0 <= xmax for x0 in half points
InBand(x0, xmin, xmax) == 2 * xmin <= x0 /\ x0 <= 2 * xmax

\* the first column of COLUMN_BOUNDS, in dict order, whose band holds x0
\* (BALANCE has xmax = float("inf"))
ColumnOf(x0) ==
    IF InBand(x0, DEBIT_MIN, DEBIT_MAX) THEN "DEBIT"
    ELSE IF InBand(x0, CREDIT_MIN, CREDIT_MAX) THEN "CREDIT"
    ELSE IF 2 * BALANCE_MIN <= x0 THEN "BALANCE"
    ELSE "UNKNOWN"

(***************************************************************************)
(* Utility functions (lines 53-125).                                       *)
(***************************************************************************)
\* find_amount_coordinates: the first word whose text without commas is target
FirstMatch(words, target) ==
    LET hits == {i \in 1..Len(words) : replace(words[i].txt, <<",">>, << >>) = target}
    IN  IF hits = {} THEN 0 ELSE SetMin(hits)

\* lines 67-70: the result for the matching word i, None for i = 0
CoordsAt(words, i) ==
    IF i = 0 THEN None
    ELSE [x0 |-> words[i].x0, y0 |-> words[i].y0,
          x1 |-> words[i].x1, y1 |-> words[i].y1,
          column |-> ColumnOf(words[i].x0)]

find_amount_coordinates(words, amount) ==
    CoordsAt(words, FirstMatch(words, Format2f(amount)))

\* mutant of ApplySign: the overdraft and the leading "-" both negate
ApplySign_bothNegate(f, negative, is_balance, overdrawn) ==
    IF ~f.ok THEN 0
    ELSE IF negative
         THEN (IF is_balance /\ overdrawn THEN f.val ELSE -f.val)
         ELSE (IF is_balance /\ overdrawn THEN -f.val ELSE f.val)

\* lines 92-100: the sign of the converted value f, 0.0 on a ValueError
ApplySign(f, negative, is_balance, overdrawn) ==
    IF ~f.ok THEN 0
    ELSE IF is_balance /\ overdrawn THEN -f.val
    ELSE IF negative THEN -f.val
    ELSE f.val

\* lines 88-100: the sign and the conversion, once "dr" has been dealt with
SignedValue(s, is_balance, overdrawn) ==
    IF startswith(s, <<"-">>)
    THEN ApplySign(float(Tail(s)), TRUE, is_balance, overdrawn)
    ELSE ApplySign(float(s), FALSE, is_balance, overdrawn)

\* lines 81-100, on the cleaned text s
ParseCleaned(s, is_balance) ==
    IF contains(s, <<"d", "r">>)
    THEN IF is_balance
         THEN SignedValue(strip(replace(s, <<"d", "r">>, << >>)), TRUE, TRUE)
         ELSE 0
    ELSE SignedValue(s, is_balance, FALSE)

parse_amount_field(amount_str, is_balance) ==
    IF amount_str = << >> \/ strip(amount_str) = << >> THEN 0
    ELSE ParseCleaned(replace(replace(replace(lower(strip(amount_str)),
                              <<"€">>, << >>), <<"£">>, << >>), <<",">>, << >>),
                      is_balance)

\* DATE_RE matched at position i of t: \d{1,2}\s+(Jan|...|Dec)\s+\d{4}.
\* The day takes two digits when it can; each \s+ run ends where the next token
\* starts. The result is <<day, month, year>> or << >>.
RegexSpace == {" ", "\t", "\n", "\r"}
SpaceRunEnd(t, i) ==
    SetMin({j \in i..(Len(t) + 1) : j = Len(t) + 1 \/ t[j] \notin RegexSpace})
\* the month starts at b and the year at c, after a day of n digits at i
DateGroups(t, i, n, b, c) ==
    IF /\ i + n - 1 <= Len(t)
       /\ \A k \in i..(i + n - 1) : t[k] \in DigitSet
       /\ b > i + n
       /\ b + 2 <= Len(t)
       /\ SubSeq(t, b, b + 2) \in MONTHS
       /\ c > b + 3
       /\ c + 3 <= Len(t)
       /\ \A k \in c..(c + 3) : t[k] \in DigitSet
    THEN <<SubSeq(t, i, i + n - 1), SubSeq(t, b, b + 2), SubSeq(t, c, c + 3)>>
    ELSE << >>
DateAfterDay(t, i, n, b) == DateGroups(t, i, n, b, SpaceRunEnd(t, b + 3))
DateAtWithDay(t, i, n) == DateAfterDay(t, i, n, SpaceRunEnd(t, i + n))
FirstNonEmpty(a, b) == IF a # << >> THEN a ELSE b
DateAt(t, i) == FirstNonEmpty(DateAtWithDay(t, i, 2), DateAtWithDay(t, i, 1))

\* f"{d} {m} {y}"
DateString(d, m, y) == d \o <<" ">> \o m \o <<" ">> \o y

BALANCE_FORWARD == <<"B","A","L","A","N","C","E"," ","F","O","R","W","A","R","D">>
LENDING_AT == <<"L","E","N","D","I","N","G"," ","@">>

\* line 54: the text searched, and the positions where DATE_RE matches in it
RawSearchText(text) == text \o <<" ">> \o BALANCE_FORWARD
DateHits(t) == {i \in 1..Len(t) : DateAt(t, i) # << >>}
RawDateHits(text) == DateHits(RawSearchText(text))

\* line 56: the string of the three groups
GroupsString(g) == DateString(g[1], g[2], g[3])
\* lines 54-57, on the text t searched with DATE_RE matching at positions hits
FirstDateIn(t, hits) == IF hits = {} THEN None ELSE GroupsString(DateAt(t, SetMin(hits)))

\* extract_date_from_raw_text: the leftmost match, or None
extract_date_from_raw_text(text) ==
    FirstDateIn(RawSearchText(text), RawDateHits(text))

\* any(k in row_text for k in ("BALANCE FORWARD", "LENDING @"))
HasAnchor(row_text) == contains(row_text, BALANCE_FORWARD) \/ contains(row_text, LENDING_AT)

\* line 106: " ".join(table[i]).upper()
DateRowText(row) == upper(join(<<" ">>, row))
\* line 119: " ".join(cell.strip() for cell in row).upper()
StartRowText(row) == upper(join(<<" ">>, [k \in 1..Len(row) |-> strip(row[k])]))

\* d.isdigit() and m in MONTHS and y.isdigit() on the stripped cells i, i+1, i+2
\* (1-based)
IsDateTriple(row, i) ==
    /\ i + 2 <= Len(row)
    /\ isdigit(strip(row[i]))
    /\ strip(row[i + 1]) \in MONTHS
    /\ isdigit(strip(row[i + 2]))
TripleString(row, i) == DateString(strip(row[i]), strip(row[i + 1]), strip(row[i + 2]))

DATE_SCAN_ROWS == 12
DATE_WINDOW == 4
START_SCAN_ROWS == 12
START_SKIP == 3

MinOf(a, b) == IF a <= b THEN a ELSE b

\* mutant of DateWindowEnd: the window is one row short
DateWindowEnd_short(i, limit) == MinOf(i + DATE_WINDOW - 1, limit)

\* line 108: the exclusive end min(i + 4, limit) of the window of anchor row i
\* (0-based)
DateWindowEnd(i, limit) == MinOf(i + DATE_WINDOW, limit)

\* the dated rows (0-based) in the window of anchor row i
InWindow(table, limit, dated, i) ==
    {j \in dated : i <= j /\ j < DateWindowEnd(i, limit)}

\* line 113: the date of the first dated row in the window of the first anchor
\* row that has one; good are the anchor rows that have one
FirstWindowDate(table, limit, dated, good) ==
    IF good = {} THEN << >>
    ELSE TripleString(table[SetMin(InWindow(table, limit, dated, SetMin(good))) + 1], 1)

\* lines 105-113, with the anchor rows and the dated rows (0-based)
ScanWindows(table, limit, anchors, dated) ==
    FirstWindowDate(table, limit, dated,
                    {i \in anchors : InWindow(table, limit, dated, i) # {}})

\* extract_initial_date; the indices are the 0-based indices of the code
extract_initial_date(table) ==
    ScanWindows(table, MinOf(Len(table), DATE_SCAN_ROWS),
                {i \in 0..(MinOf(Len(table), DATE_SCAN_ROWS) - 1) :
                    HasAnchor(DateRowText(table[i + 1]))},
                {j \in 0..(Len(table) - 1) :
                    Len(table[j + 1]) >= 3 /\ IsDateTriple(table[j + 1], 1)})

\* any(table[idx]): some cell is a non-empty string
AnyCell(row) == \E k \in 1..Len(row) : row[k] # << >>

\* line 118-120: the anchor rows (0-based) among the first 12
StartAnchorRows(table) ==
    {i \in 0..(MinOf(Len(table), START_SCAN_ROWS) - 1) :
        HasAnchor(StartRowText(table[i + 1]))}

\* lines 122-124: the index the while loop stops at, started at first
SkipFrom(table, first) ==
    IF first >= Len(table) THEN first
    ELSE SetMin({idx \in first..Len(table) :
                    idx >= Len(table) \/ AnyCell(table[idx + 1])})

\* mutant of StartAfter: the rows after the anchor are not stepped over
StartAfter_noStep(table, anchors) ==
    IF anchors = {} THEN 0 ELSE SkipFrom(table, SetMin(anchors))

\* lines 118-125, with the anchor rows found
StartAfter(table, anchors) ==
    IF anchors = {} THEN 0 ELSE SkipFrom(table, SetMin(anchors) + START_SKIP)

\* find_transaction_start_index; the result is a 0-based index
find_transaction_start_index(table) == StartAfter(table, StartAnchorRows(table))

(***************************************************************************)
(* Core parsing (lines 130-216).                                           *)
(***************************************************************************)
\* the cells of row that do not match AMOUNT_RE, in order
RECURSIVE NonAmounts(_)
NonAmounts(row) ==
    IF row = << >> THEN << >>
    ELSE (IF AMOUNT_RE_match(row[1]) THEN << >> ELSE <<row[1]>>) \o NonAmounts(Tail(row))

\* lines 143-149: the value of one of the fields debit, credit, balance
AmountField(field, coords, amt) ==
    LET col == IF coords # None THEN coords.column ELSE "DEBIT"
    IN  IF col = field THEN amt ELSE 0

\* mutant of KeepRecord: every row yields a record
KeepRecord_always(date, details, debit, credit, balance) == TRUE

\* line 167: any((date, details, debit, credit, balance))
KeepRecord(date, details, debit, credit, balance) ==
    date # << >> \/ details # << >> \/ debit # 0 \/ credit # 0 \/ balance # 0

\* the first cell (1-based) matching AMOUNT_RE, 0 when there is none
FirstOf(S) == IF S = {} THEN 0 ELSE SetMin(S)
FirstAmountCell(row) == FirstOf({k \in 1..Len(row) : AMOUNT_RE_match(row[k])})
\* the first i (1-based) with a date triple at cells i, i+1, i+2, 0 when none
FirstTriple(row) == FirstOf({i \in 1..(Len(row) - 2) : IsDateTriple(row, i)})

\* lines 167-179
MakeRecord(idx, date, details, debit, credit, balance, coords) ==
    IF ~KeepRecord(date, details, debit, credit, balance) THEN None
    ELSE [row |-> idx, date |-> date, details |-> details,
          debit |-> debit, credit |-> credit, balance |-> balance,
          x_coord |-> IF coords # None THEN coords.x0 ELSE << >>,
          y_coord |-> IF coords # None THEN coords.y0 ELSE << >>]

\* lines 136-150, then 167-179: amt is the first amount and coords its
\* coordinates, when hasAmt
WithAmount(idx, date, details, hasAmt, amt, coords) ==
    IF hasAmt
    THEN MakeRecord(idx, date, details,
                    AmountField("DEBIT", coords, amt),
                    AmountField("CREDIT", coords, amt),
                    AmountField("BALANCE", coords, amt), coords)
    ELSE MakeRecord(idx, date, details, 0, 0, 0, None)

\* lines 141-142
ClassifyAmount(idx, date, details, words, hasAmt, amt) ==
    WithAmount(idx, date, details, hasAmt, amt,
               IF hasAmt THEN find_amount_coordinates(words, amt) ELSE None)

\* lines 152-165: k is the first amount cell and i0 the first date triple
ParseAt(row, idx, words, inherited_date, k, i0) ==
    ClassifyAmount(idx,
        IF i0 # 0 THEN TripleString(row, i0) ELSE inherited_date,
        IF i0 # 0
        THEN strip(join(<<" ">>, NonAmounts(SubSeq(row, i0 + 3, Len(row)))))
        ELSE strip(join(<<" ">>, NonAmounts(row))),
        words, k # 0,
        IF k # 0 THEN float(row[k]).val ELSE 0)

parse_transaction_row(row, idx, words, inherited_date) ==
    ParseAt(row, idx, words, inherited_date, FirstAmountCell(row), FirstTriple(row))

\* line 203: not any(cell.strip() for cell in raw_row)
IsBlankRow(raw_row) == \A k \in 1..Len(raw_row) : strip(raw_row[k]) = << >>

\* mutant of CarryDate: the carried date is never updated
CarryDate_stuck(tx_date, current_date) == current_date

\* lines 209-210: the carried date after a transaction with date tx_date
CarryDate(tx_date, current_date) ==
    IF tx_date # << >> /\ tx_date # current_date THEN tx_date ELSE current_date

\* lines 207-213: the transactions appended (none or one) for the parsed tx, and
\* the date carried on
Appended(tx, current_date) ==
    IF tx = None THEN [txs |-> << >>, date |-> current_date]
    ELSE IF tx.date # << >> /\ tx.date # current_date
         THEN [txs |-> <<tx>>, date |-> CarryDate(tx.date, current_date)]
         ELSE [txs |-> <<[tx EXCEPT !.date = current_date]>>,
               date |-> CarryDate(tx.date, current_date)]

\* line 205: [cell.strip() for cell in raw_row]
StripCells(raw_row) == [k \in 1..Len(raw_row) |-> strip(raw_row[k])]

\* lines 203-213: one turn of the loop, on row idx (0-based) with the carried
\* date current_date
RowStep(table, idx, words, current_date) ==
    IF IsBlankRow(table[idx + 1]) THEN [txs |-> << >>, date |-> current_date]
    ELSE Appended(parse_transaction_row(StripCells(table[idx + 1]), idx, words,
                                        current_date),
                  current_date)

\* lines 202-214: the loop from row idx (0-based) on; CleanAfter is the rest of
\* a turn once its step is known
RECURSIVE CleanRows(_, _, _, _), CleanAfter(_, _, _, _)
CleanRows(table, idx, words, current_date) ==
    IF idx >= Len(table) THEN << >>
    ELSE CleanAfter(table, idx, words, RowStep(table, idx, words, current_date))
CleanAfter(table, idx, words, step) ==
    step.txs \o CleanRows(table, idx + 1, words, step.date)

\* lines 191-193: the fallback when the table gave the date d
OrRawTextDate(d, raw_text) ==
    IF d # << >> THEN d
    ELSE IF RawDateHits(raw_text) = {} THEN << >>
    ELSE extract_date_from_raw_text(raw_text)

\* lines 190-193: the date the page starts with
InitialDate(table, raw_text) == OrRawTextDate(extract_initial_date(table), raw_text)

\* clean_page_transactions; raw_text is page.get_text()
clean_page_transactions(table, raw_text, words) ==
    CleanRows(table, find_transaction_start_index(table), words,
              InitialDate(table, raw_text))

(***************************************************************************)
(* Function-call harness: Init draws the arguments of one call from a      *)
(* bounded set, the Call_ action runs the function body.                   *)
(***************************************************************************)
MachineIdle ==
    /\ pc = "idle"
    /\ input_path = None
    /\ combined = FALSE
    /\ separate = FALSE
    /\ debug = FALSE
    /\ pdfs = << >>
    /\ pdf_i = 0
    /\ doc_open = FALSE
    /\ p = 0
    /\ all_txs = << >>
    /\ tx_page = << >>
    /\ all_transactions = << >>
    /\ written = << >>

Returned(fn) == st = "returned" /\ call.fn = fn

\* all sequences over S of length at most n
SeqsUpTo(S, n) == UNION {[1..k -> S] : k \in 0..n}

(***************************************************************************)
(* parse_amount_field: the texts tried.                                    *)
(***************************************************************************)
\* a magnitude as written and its value in cents
Magnitudes ==
    { [txt |-> <<"4","5",".","0","0">>, val |-> 4500],
      [txt |-> <<"0",".","0","5">>, val |-> 5],
      [txt |-> <<"1",",","2","3","4",".","5","6">>, val |-> 123456],
      [txt |-> <<"7">>, val |-> 700] }
Leads == { << >>, <<"-">> }
Currencies == { << >>, <<"€">>, <<"£">> }
Separators == { << >>, <<" ">> }
Markers == { << >>, <<"d","r">>, <<"D","R">>, <<"D","r">> }
DrMarkers == Markers \ { << >> }

AmountParts ==
    [lead : Leads, cur : Currencies, mag : Magnitudes, sep : Separators,
     marker : Markers, markerFirst : BOOLEAN]

\* "-€45.00 dr" or "dr -€45.00"
AmountText(a) ==
    IF a.markerFirst
    THEN a.marker \o a.sep \o a.lead \o a.cur \o a.mag.txt
    ELSE a.lead \o a.cur \o a.mag.txt \o a.sep \o a.marker

OtherTexts ==
    { << >>, <<" ", " ">>, <<"a","b","c">>, <<"-">>, <<"d","r">>,
      <<"-","-","4","5",".","0","0">>, <<"4","5",".","0","0","."," ","d","r">> }

AmountTexts == {AmountText(a) : a \in AmountParts} \cup OtherTexts

InitAmount ==
    /\ call \in [fn : {"parse_amount_field"}, amount_str : AmountTexts,
                 is_balance : BOOLEAN]
    /\ st = "called"
    /\ ret = None
    /\ MachineIdle

Call_parse_amount_field ==
    /\ st = "called"
    /\ call.fn = "parse_amount_field"
    /\ ret' = parse_amount_field(call.amount_str, call.is_balance)
    /\ st' = "returned"
    /\ UNCHANGED <<call, machine_vars>>

NextAmount == Call_parse_amount_field

SpecAmount == InitAmount /\ [][NextAmount]_vars

(***************************************************************************)
(* find_amount_coordinates: the word lists tried.                          *)
(***************************************************************************)
MaxWords == 2

WordTexts == { <<"3",".","0","0">>, <<"1",",","5","0","0",".","0","0">>,
               <<"0","3",".","0","0">> }
\* left edges in half points: 249.5, 250, 324, 324.5, 325, 350, 350.5, 394.5, 395
WordX0s == {499, 500, 648, 649, 650, 700, 701, 789, 790}
WordChoices == [txt : WordTexts, x0 : WordX0s]

\* a page's words in reading order: word i lies on line i
MkWords(ws) ==
    [i \in 1..Len(ws) |->
        [x0 |-> ws[i].x0, y0 |-> 600 + 24 * i,
         x1 |-> ws[i].x0 + 60, y1 |-> 620 + 24 * i, txt |-> ws[i].txt]]

WordLists == {MkWords(ws) : ws \in SeqsUpTo(WordChoices, MaxWords)}
LookupAmounts == {300, 150000}

InitColumn ==
    /\ call \in [fn : {"find_amount_coordinates"}, words : WordLists,
                 amount : LookupAmounts]
    /\ st = "called"
    /\ ret = None
    /\ MachineIdle

Call_find_amount_coordinates ==
    /\ st = "called"
    /\ call.fn = "find_amount_coordinates"
    /\ ret' = find_amount_coordinates(call.words, call.amount)
    /\ st' = "returned"
    /\ UNCHANGED <<call, machine_vars>>

NextColumn == Call_find_amount_coordinates

SpecColumn == InitColumn /\ [][NextColumn]_vars

(***************************************************************************)
(* Tables tried: some filler rows, then rows drawn from a small vocabulary. *)
(***************************************************************************)
MaxPad == 12
MaxTail == 3
MaxDateTail == 5
MaxBlankRun == 2

PadRow == <<<<"P","a","g","e">>, <<"1">>>>
Pad(k) == [i \in 1..k |-> PadRow]

BlankRow == << << >>, << >> >>
SpaceRow == << <<" ">>, << >> >>
AnchorRow == << << >>, <<"B","a","l","a","n","c","e"," ","F","o","r","w","a","r","d">>,
                <<"1",",","5","0","0",".","0","0">> >>
AnchorDateRow == << <<"1">>, <<"J","a","n">>, <<"2","0","2","4">>,
                    <<"L","e","n","d","i","n","g"," ","@">> >>
DateRow1 == << <<"2">>, <<"F","e","b">>, <<"2","0","2","4">>, <<"S","h","o","p">>,
               <<"5","0",".","0","0">> >>
DateRow2 == << <<"3">>, <<" ","F","e","b">>, <<"2","0","2","4">>, <<"F","u","e","l">> >>
LateDateRow == << << >>, <<"4">>, <<"M","a","r">>, <<"2","0","2","4">> >>
PlainRow == << <<"C","o","f","f","e","e">>, <<"3",".","0","0">> >>

Date1Jan == <<"1"," ","J","a","n"," ","2","0","2","4">>
Date2Feb == <<"2"," ","F","e","b"," ","2","0","2","4">>
Date3Feb == <<"3"," ","F","e","b"," ","2","0","2","4">>
Date4Mar == <<"4"," ","M","a","r"," ","2","0","2","4">>
Date5Mar == <<"5"," ","M","a","r"," ","2","0","2","4">>

(***************************************************************************)
(* extract_initial_date: the tables tried.                                 *)
(***************************************************************************)
DateRows == {AnchorRow, AnchorDateRow, DateRow1, LateDateRow}
DatePads == {0} \cup ((MaxPad - 3)..MaxPad)
DateTables == {Pad(k) \o t : k \in DatePads, t \in SeqsUpTo(DateRows, MaxDateTail)}

InitDate ==
    /\ call \in [fn : {"extract_initial_date"}, table : DateTables]
    /\ st = "called"
    /\ ret = None
    /\ MachineIdle

Call_extract_initial_date ==
    /\ st = "called"
    /\ call.fn = "extract_initial_date"
    /\ ret' = extract_initial_date(call.table)
    /\ st' = "returned"
    /\ UNCHANGED <<call, machine_vars>>

NextDate == Call_extract_initial_date

SpecDate == InitDate /\ [][NextDate]_vars

(***************************************************************************)
(* parse_transaction_row, find_transaction_start_index and                 *)
(* clean_page_transactions: the rows, tables and pages tried.              *)
(***************************************************************************)
MaxRowWords == 1

RowWordTexts == { <<"3",".","0","0">>, <<"5","0",".","0","0">> }
\* left edges in half points: 10 (no band), 260 (DEBIT), 330 (CREDIT), 500 (BALANCE)
RowWordX0s == {20, 520, 660, 1000}
RowWordLists ==
    {MkWords(ws) : ws \in SeqsUpTo([txt : RowWordTexts, x0 : RowWordX0s], MaxRowWords)}

TwoAmountRow == << <<"P","a","y">>, <<"3",".","0","0">>, <<"5","0",".","0","0">> >>
ZeroAmountRow == << <<"0",".","0","0">> >>
EmptyRows == { << >>, << << >> >>, BlankRow }
PageRows == {BlankRow, SpaceRow, AnchorRow, DateRow1, DateRow2, PlainRow}
RowChoices ==
    PageRows \cup EmptyRows \cup {TwoAmountRow, ZeroAmountRow, LateDateRow, AnchorDateRow}

RowCalls ==
    [fn : {"parse_transaction_row"}, row : RowChoices, idx : {0, 5},
     words : RowWordLists, inherited_date : { << >>, Date1Jan }]

PagePads == {0, MaxPad - 1, MaxPad}
Blanks(g) == [i \in 1..g |-> BlankRow]
FreeTables == {Pad(k) \o t : k \in PagePads, t \in SeqsUpTo(PageRows, MaxTail)}
\* an anchor row, two rows of any kind, a run of blank rows, at most one more row
AnchoredTables ==
    {Pad(k) \o <<AnchorRow>> \o mid \o Blanks(g) \o post :
        k \in PagePads, mid \in [1..2 -> PageRows], g \in 0..MaxBlankRun,
        post \in SeqsUpTo(PageRows, 1)}
PageTables == FreeTables \cup AnchoredTables

StartCalls == [fn : {"find_transaction_start_index"}, table : PageTables]

\* page.get_text() and the page's words: a page with no date in its text and no
\* words, and one with a date in its text and the word 3.00 outside every band
RawTextWithDate == <<"T","o"," ","5"," ","M","a","r"," "," ","2","0","2","4">>
PageEnvs ==
    { [raw_text |-> << >>, words |-> << >>],
      [raw_text |-> RawTextWithDate,
       words |-> MkWords(<<[txt |-> <<"3",".","0","0">>, x0 |-> 20]>>)] }
PageCalls ==
    {[fn |-> "clean_page_transactions", table |-> t,
      raw_text |-> e.raw_text, words |-> e.words] : t \in PageTables, e \in PageEnvs}

InitPage ==
    /\ call \in RowCalls \cup StartCalls \cup PageCalls
    /\ st = "called"
    /\ ret = None
    /\ MachineIdle

Call_parse_transaction_row ==
    /\ st = "called"
    /\ call.fn = "parse_transaction_row"
    /\ ret' = parse_transaction_row(call.row, call.idx, call.words, call.inherited_date)
    /\ st' = "returned"
    /\ UNCHANGED <<call, machine_vars>>

Call_find_transaction_start_index ==
    /\ st = "called"
    /\ call.fn = "find_transaction_start_index"
    /\ ret' = find_transaction_start_index(call.table)
    /\ st' = "returned"
    /\ UNCHANGED <<call, machine_vars>>

Call_clean_page_transactions ==
    /\ st = "called"
    /\ call.fn = "clean_page_transactions"
    /\ ret' = clean_page_transactions(call.table, call.raw_text, call.words)
    /\ st' = "returned"
    /\ UNCHANGED <<call, machine_vars>>

NextPage ==
    \/ Call_parse_transaction_row
    \/ Call_find_transaction_start_index
    \/ Call_clean_page_transactions

SpecPage == InitPage /\ [][NextPage]_vars

(***************************************************************************)
(* I/O & orchestration (lines 221-321): process and read_pdf_and_extract,  *)
(* one action per step of the code. A path is a record (dir, stem, suffix); *)
(* a document is a record (path, pages); a page is a record (tables,       *)
(* raw_text, words), tables being what find_tables(...).tables holds.      *)
(***************************************************************************)
MaxPages == 3
MaxPdfs == 2

\* Path.with_suffix(suffix)
with_suffix(path, suffix) == [path EXCEPT !.suffix = suffix]

\* lines 317-318: input_path / (input_path.name + "_combined.csv")
CombinedPath(path) ==
    [dir |-> path.dir \o <<path.stem \o <<path.suffix>>>>,
     stem |-> path.stem \o <<path.suffix, "_combined">>,
     suffix |-> ".csv"]

\* lines 262-265
Fieldnames(dbg) ==
    IF dbg THEN <<"date", "details", "debit", "credit", "balance", "x_coord", "y_coord">>
    ELSE <<"date", "details", "debit", "credit", "balance">>

\* x or ""
OrEmpty(x) == IF x = 0 THEN << >> ELSE x

\* lines 271-280: the row written for tx
CsvRow(tx, dbg) ==
    IF dbg
    THEN [date |-> tx.date, details |-> tx.details, debit |-> OrEmpty(tx.debit),
          credit |-> OrEmpty(tx.credit), balance |-> OrEmpty(tx.balance),
          x_coord |-> tx.x_coord, y_coord |-> tx.y_coord]
    ELSE [date |-> tx.date, details |-> tx.details, debit |-> OrEmpty(tx.debit),
          credit |-> OrEmpty(tx.credit), balance |-> OrEmpty(tx.balance)]

\* export_to_csv: the files written after the call
export_to_csv(files, transactions, csv_path, dbg) ==
    IF transactions = << >> THEN files
    ELSE Append(files, [path |-> csv_path, header |-> Fieldnames(dbg),
                        rows |-> [k \in 1..Len(transactions) |->
                                     CsvRow(transactions[k], dbg)]])

\* mutant of Extend: the new elements are put in front
Extend_front(list, more) == more \o list

\* list.extend(more)
Extend(list, more) == list \o more

\* the pages tried: no table detected; a dated row and a dateless row; a blank
\* row and a dateless row under a page text with a date; a table of one blank row
NoTablePage == [tables |-> << >>, raw_text |-> RawTextWithDate, words |-> << >>]
TwoRowPage == [tables |-> <<<<DateRow1, PlainRow>>>>, raw_text |-> << >>, words |-> << >>]
OneRowPage ==
    [tables |-> <<<<BlankRow, PlainRow>>>>, raw_text |-> RawTextWithDate,
     words |-> MkWords(<<[txt |-> <<"3",".","0","0">>, x0 |-> 660]>>)]
BlankPage == [tables |-> <<<<BlankRow>>>>, raw_text |-> << >>, words |-> << >>]
PageKinds == {NoTablePage, TwoRowPage, OneRowPage, BlankPage}

FilePath == [dir |-> <<"in">>, stem |-> <<"jan">>, suffix |-> ".pdf"]
DirPath == [dir |-> <<"in">>, stem |-> <<"stmts">>, suffix |-> ""]
\* the i-th name, in sorted order, of the PDFs of the directory
PdfPath(i) == [dir |-> <<"in", "stmts">>, stem |-> <<"s", i>>, suffix |-> ".pdf"]

\* what the command line can call process with: a file of up to MaxPages pages,
\* a directory of up to MaxPdfs PDFs of at most one page, or a path that is
\* neither
Inputs ==
    {[kind |-> "file", path |-> FilePath, docs |-> <<[path |-> FilePath, pages |-> d]>>] :
        d \in SeqsUpTo(PageKinds, MaxPages)}
    \cup
    {[kind |-> "dir", path |-> DirPath,
      docs |-> [i \in 1..Len(ds) |-> [path |-> PdfPath(i), pages |-> ds[i]]]] :
        ds \in SeqsUpTo(SeqsUpTo(PageKinds, 1), MaxPdfs)}
    \cup
    {[kind |-> "missing", path |-> FilePath, docs |-> << >>]}

\* the --combined / --separate group of main is mutually exclusive (line 336)
Flags == {<<FALSE, FALSE>>, <<TRUE, FALSE>>, <<FALSE, TRUE>>}

Init ==
    /\ call = None
    /\ st = "idle"
    /\ ret = None
    /\ pc = "start"
    /\ input_path \in Inputs
    /\ \E f \in Flags : combined = f[1] /\ separate = f[2]
    /\ debug \in BOOLEAN
    /\ pdfs = << >>
    /\ pdf_i = 0
    /\ doc_open = FALSE
    /\ p = 0
    /\ all_txs = << >>
    /\ tx_page = << >>
    /\ all_transactions = << >>
    /\ written = << >>

\* the document and the page at hand
CurrentDoc == pdfs[pdf_i]
CurrentPage == CurrentDoc.pages[p + 1]

\* lines 292-303, on a file or a directory
ProcessStart ==
    /\ pc = "start"
    /\ input_path.kind \in {"file", "dir"}
    /\ pdfs' = input_path.docs
    /\ combined' = IF input_path.kind = "dir" /\ ~(combined \/ separate)
                   THEN TRUE ELSE combined
    /\ all_transactions' = << >>
    /\ pc' = "loop"
    /\ UNCHANGED <<harness_vars, input_path, separate, debug, pdf_i, doc_open, p,
                   all_txs, tx_page, written>>

\* lines 296-298: neither file nor directory
ProcessBadPath ==
    /\ pc = "start"
    /\ input_path.kind = "missing"
    /\ pc' = "done"
    /\ UNCHANGED <<harness_vars, input_path, combined, separate, debug, pdfs, pdf_i,
                   doc_open, p, all_txs, tx_page, all_transactions, written>>

\* line 305-307: the next PDF, and the call of read_pdf_and_extract
ProcessNextPdf ==
    /\ pc = "loop"
    /\ pdf_i < Len(pdfs)
    /\ pdf_i' = pdf_i + 1
    /\ pc' = "open"
    /\ UNCHANGED <<harness_vars, input_path, combined, separate, debug, pdfs,
                   doc_open, p, all_txs, tx_page, all_transactions, written>>

\* line 222-224: pymupdf.open succeeds
Open ==
    /\ pc = "open"
    /\ doc_open' = TRUE
    /\ all_txs' = << >>
    /\ tx_page' = << >>
    /\ p' = 0
    /\ pc' = "page"
    /\ UNCHANGED <<harness_vars, input_path, combined, separate, debug, pdfs, pdf_i,
                   all_transactions, written>>

\* an exception leaves read_pdf_and_extract, process and main
Raise ==
    /\ pc' = "raised"
    /\ UNCHANGED <<harness_vars, input_path, combined, separate, debug, pdfs, pdf_i,
                   doc_open, p, all_txs, tx_page, all_transactions, written>>

\* line 222: pymupdf.open raises
OpenRaises == pc = "open" /\ Raise

\* line 226: the loop over the pages
PageLoop ==
    /\ pc = "page"
    /\ pc' = IF p < Len(CurrentDoc.pages) THEN "words" ELSE "close"
    /\ UNCHANGED <<harness_vars, input_path, combined, separate, debug, pdfs, pdf_i,
                   doc_open, p, all_txs, tx_page, all_transactions, written>>

\* lines 227-228: page.get_text("words", sort=True)
GetWords ==
    /\ pc = "words"
    /\ pc' = "tables"
    /\ UNCHANGED <<harness_vars, input_path, combined, separate, debug, pdfs, pdf_i,
                   doc_open, p, all_txs, tx_page, all_transactions, written>>

GetWordsRaises == pc = "words" /\ Raise

\* lines 230-242: page.find_tables(...).tables; a page with no table is skipped
FindTables ==
    /\ pc = "tables"
    /\ IF CurrentPage.tables = << >>
       THEN p' = p + 1 /\ pc' = "page"
       ELSE p' = p /\ pc' = "clean"
    /\ UNCHANGED <<harness_vars, input_path, combined, separate, debug, pdfs, pdf_i,
                   doc_open, all_txs, tx_page, all_transactions, written>>

FindTablesRaises == pc = "tables" /\ Raise

\* the txs of line 245 for the page at hand
PageTxs(page) == clean_page_transactions(page.tables[1], page.raw_text, page.words)

\* lines 244-246
CleanPage ==
    /\ pc = "clean"
    /\ all_txs' = Extend(all_txs, PageTxs(CurrentPage))
    /\ tx_page' = Extend(tx_page, [k \in 1..Len(PageTxs(CurrentPage)) |-> p + 1])
    /\ p' = p + 1
    /\ pc' = "page"
    /\ UNCHANGED <<harness_vars, input_path, combined, separate, debug, pdfs, pdf_i,
                   doc_open, all_transactions, written>>

\* lines 244-245: extract() or clean_page_transactions raises
CleanPageRaises == pc = "clean" /\ Raise

\* lines 248-249: doc.close() and the return
Close ==
    /\ pc = "close"
    /\ doc_open' = FALSE
    /\ pc' = "returned"
    /\ UNCHANGED <<harness_vars, input_path, combined, separate, debug, pdfs, pdf_i,
                   p, all_txs, tx_page, all_transactions, written>>

\* lines 309-313, with txs = all_txs
ProcessAfterExtract ==
    /\ pc = "returned"
    /\ written' = IF separate
                  THEN export_to_csv(written, all_txs,
                                     with_suffix(CurrentDoc.path, ".csv"), debug)
                  ELSE written
    /\ all_transactions' = Extend(all_transactions, all_txs)
    /\ pc' = "loop"
    /\ UNCHANGED <<harness_vars, input_path, combined, separate, debug, pdfs, pdf_i,
                   doc_open, p, all_txs, tx_page>>

\* lines 315-321, after the last PDF
ProcessCombined ==
    /\ pc = "loop"
    /\ pdf_i >= Len(pdfs)
    /\ written' = IF combined
                  THEN export_to_csv(written, all_transactions,
                                     IF input_path.kind = "dir"
                                     THEN CombinedPath(input_path.path)
                                     ELSE with_suffix(input_path.path, ".csv"),
                                     debug)
                  ELSE written
    /\ pc' = "done"
    /\ UNCHANGED <<harness_vars, input_path, combined, separate, debug, pdfs, pdf_i,
                   doc_open, p, all_txs, tx_page, all_transactions>>

Next ==
    \/ ProcessStart
    \/ ProcessBadPath
    \/ ProcessNextPdf
    \/ Open
    \/ OpenRaises
    \/ PageLoop
    \/ GetWords
    \/ GetWordsRaises
    \/ FindTables
    \/ FindTablesRaises
    \/ CleanPage
    \/ CleanPageRaises
    \/ Close
    \/ ProcessAfterExtract
    \/ ProcessCombined

Spec == Init /\ [][Next]_vars

(***************************************************************************)
(* Claims.                                                                 *)
(***************************************************************************)

\* C6: find_amount_coordinates returns None iff no word's comma-stripped text
\* equals the amount formatted to two decimals; otherwise the result carries the
\* coordinates of the first such word in list order, and its column is DEBIT iff
\* 250 <= x0 <= 324, CREDIT iff 325 <= x0 <= 350, BALANCE iff x0 >= 395 and
\* UNKNOWN for every other x0.
C6_ColumnClassification ==
    Returned("find_amount_coordinates") =>
        LET ws   == call.words
            hits == {i \in 1..Len(ws) :
                        replace(ws[i].txt, <<",">>, << >>) = Format2f(call.amount)}
        IN  /\ (ret = None) <=> (hits = {})
            /\ hits # {} =>
                 LET w == ws[SetMin(hits)]
                     x == w.x0
                 IN  /\ ret.x0 = w.x0 /\ ret.y0 = w.y0
                     /\ ret.x1 = w.x1 /\ ret.y1 = w.y1
                     /\ (ret.column = "DEBIT") <=> (500 <= x /\ x <= 648)
                     /\ (ret.column = "CREDIT") <=> (650 <= x /\ x <= 700)
                     /\ (ret.column = "BALANCE") <=> (790 <= x)
                     /\ (ret.column = "UNKNOWN") <=>
                          (x < 500 \/ (648 < x /\ x < 650) \/ (700 < x /\ x < 790))

\* C6 witness: two words match, the first lies between the DEBIT and CREDIT
\* bands (x0 = 324.5) and the second in the BALANCE band; the result is UNKNOWN
\* at the first word.
C6_Witness ==
    /\ Returned("find_amount_coordinates")
    /\ Len(call.words) = 2
    /\ call.amount = 150000
    /\ call.words[1].txt = <<"1",",","5","0","0",".","0","0">>
    /\ call.words[2].txt = <<"1",",","5","0","0",".","0","0">>
    /\ call.words[1].x0 = 649
    /\ call.words[2].x0 = 790
    /\ ret # None
    /\ ret.column = "UNKNOWN"
    /\ ret.y0 = call.words[1].y0

\* C7: for a text made of an optional leading "-", an optional currency symbol,
\* a valid magnitude m and the marker "dr" (any case, before or after, with or
\* without a space), parse_amount_field returns -m when is_balance is true (one
\* negation, leading "-" or not) and 0 when is_balance is false.
C7_Overdraft ==
    Returned("parse_amount_field") =>
        \A a \in AmountParts :
            (a.marker \in DrMarkers /\ call.amount_str = AmountText(a)) =>
                ret = IF call.is_balance THEN -a.mag.val ELSE 0

\* C7 witness: "-45.00 dr" parsed as a balance gives -45.00.
C7_Witness ==
    /\ Returned("parse_amount_field")
    /\ call.amount_str = <<"-","4","5",".","0","0"," ","d","r">>
    /\ call.is_balance
    /\ ret = -4500

\* C3: process on a file whose extraction yields at least one transaction
\* writes one CSV, at the input path with its suffix replaced by .csv, for each
\* of the flag combinations the command line accepts.
C3_SingleFileCsv ==
    (pc = "done" /\ input_path.kind = "file" /\ all_transactions # << >>) =>
        /\ Len(written) = 1
        /\ written[1].path = [dir |-> input_path.path.dir,
                              stem |-> input_path.path.stem, suffix |-> ".csv"]

\* C4: once read_pdf_and_extract has opened the document, the handle is closed
\* when the function is left, by its return or by an exception.
C4_HandleClosed == pc \in {"returned", "raised", "done"} => ~doc_open

\* the fields of a transaction that are set for every row
Core(tx) ==
    [row |-> tx.row, date |-> tx.date, details |-> tx.details,
     debit |-> tx.debit, credit |-> tx.credit, balance |-> tx.balance]
CoreOf(txs) == [k \in 1..Len(txs) |-> Core(txs[k])]

\* the transactions of the pages that have a table, page after page
RECURSIVE StatementOf(_)
StatementOf(pages) ==
    IF pages = << >> THEN << >>
    ELSE (IF pages[1].tables = << >> THEN << >> ELSE CoreOf(PageTxs(pages[1])))
         \o StatementOf(Tail(pages))

\* C10: the list read_pdf_and_extract returns holds the transactions of the
\* pages with a detected table, in page order and within a page in strictly
\* increasing row index; a page with no table contributes nothing and leaves the
\* transactions of the other pages as they are.
C10_StatementOrder ==
    pc = "returned" =>
        /\ Len(tx_page) = Len(all_txs)
        /\ \A k \in 1..Len(all_txs) : CurrentDoc.pages[tx_page[k]].tables # << >>
        /\ \A k \in 1..(Len(all_txs) - 1) :
              \/ tx_page[k] < tx_page[k + 1]
              \/ tx_page[k] = tx_page[k + 1] /\ all_txs[k].row < all_txs[k + 1].row
        /\ CoreOf(all_txs) = StatementOf(CurrentDoc.pages)

\* C10 witness: a page of two transactions, a page with no table and a page of
\* one transaction; three transactions are returned, of pages 1, 1 and 3.
C10_Witness ==
    /\ pc = "returned"
    /\ CurrentDoc.pages = <<TwoRowPage, NoTablePage, OneRowPage>>
    /\ tx_page = <<1, 1, 3>>
    /\ Len(all_txs) = 3
    /\ all_txs[3].date = Date5Mar

\* every cell of the row is the empty string
AllEmpty(row) == \A k \in 1..Len(row) : row[k] = << >>

\* the row has an explicit (day, month, year) triple in three consecutive cells
HasExplicitDate(row) == \E i \in 1..(Len(row) - 2) : IsDateTriple(row, i)

\* C1: when the page's initial date is non-empty, every transaction
\* clean_page_transactions emits has a non-empty date, and a transaction built
\* from a row with no explicit date triple carries the date of the most recent
\* earlier emitted transaction whose row had one, or the initial date when there
\* is none.
C1_DateCarryForward ==
    Returned("clean_page_transactions") =>
        \A initial_date \in {InitialDate(call.table, call.raw_text)} :
            initial_date # << >> =>
                \A explicit \in {{k \in 1..Len(ret) :
                                     HasExplicitDate(call.table[ret[k].row + 1])}} :
                    \A k \in 1..Len(ret) :
                        /\ ret[k].date # << >>
                        /\ k \notin explicit =>
                             LET prev == {j \in explicit : j < k}
                             IN  ret[k].date = IF prev = {} THEN initial_date
                                               ELSE ret[SetMax(prev)].date

\* C1 witness: the page starts at 5 Mar 2024, the rows dated 2 Feb and 3 Feb
\* are emitted, and the dateless row after them carries 3 Feb 2024.
C1_Witness ==
    /\ Returned("clean_page_transactions")
    /\ call.table = <<DateRow1, DateRow2, PlainRow>>
    /\ InitialDate(call.table, call.raw_text) = Date5Mar
    /\ Len(ret) = 3
    /\ ret[1].date = Date2Feb
    /\ ret[2].date = Date3Feb
    /\ ret[3].date = Date3Feb

\* the fields of what parse_transaction_row returned; None assigns nothing
DebitOf(r) == IF r = None THEN 0 ELSE r.debit
CreditOf(r) == IF r = None THEN 0 ELSE r.credit
BalanceOf(r) == IF r = None THEN 0 ELSE r.balance

\* C2: when a row holds a cell matching the strict amount pattern, the first
\* such amount goes to exactly one of debit, credit and balance and the other two
\* stay zero: the column the classifier resolved, and debit when the classifier
\* returns None or the column UNKNOWN.
C2_AmountAssignment ==
    (Returned("parse_transaction_row")
        /\ \E k \in 1..Len(call.row) : AMOUNT_RE_match(call.row[k])) =>
        LET first  == SetMin({k \in 1..Len(call.row) : AMOUNT_RE_match(call.row[k])})
            amt    == float(call.row[first]).val
            coords == find_amount_coordinates(call.words, amt)
            field  == IF coords = None THEN "DEBIT"
                      ELSE IF coords.column = "UNKNOWN" THEN "DEBIT"
                      ELSE coords.column
        IN  /\ DebitOf(ret) = IF field = "DEBIT" THEN amt ELSE 0
            /\ CreditOf(ret) = IF field = "CREDIT" THEN amt ELSE 0
            /\ BalanceOf(ret) = IF field = "BALANCE" THEN amt ELSE 0

\* C5 as stated: parse_transaction_row returns None for a row whose cells are
\* all empty, for every words list and every inherited_date.
C5_BlankRowNone_Original ==
    (Returned("parse_transaction_row") /\ AllEmpty(call.row)) => ret = None

\* C5: a row whose cells are all empty never produces a transaction in
\* clean_page_transactions; parse_transaction_row returns None for such a row,
\* for every words list, exactly when inherited_date is empty, and otherwise a
\* record holding inherited_date, empty details and zero amounts.
C5_BlankRowSuppression ==
    /\ (Returned("parse_transaction_row") /\ AllEmpty(call.row)) =>
          /\ (ret = None) <=> (call.inherited_date = << >>)
          /\ ret # None =>
                /\ ret.date = call.inherited_date
                /\ ret.details = << >>
                /\ ret.debit = 0 /\ ret.credit = 0 /\ ret.balance = 0
    /\ Returned("clean_page_transactions") =>
          \A k \in 1..Len(ret) : ~AllEmpty(call.table[ret[k].row + 1])

\* C5 witness: the row ("", "") parsed with an empty inherited date and a words
\* list of one word gives None.
C5_Witness ==
    /\ Returned("parse_transaction_row")
    /\ call.row = BlankRow
    /\ call.inherited_date = << >>
    /\ Len(call.words) = 1
    /\ ret = None

\* the rows (0-based) among the first 12 whose text holds an anchor phrase
DateAnchors(t) ==
    {i \in 0..(MinOf(Len(t), 12) - 1) : HasAnchor(DateRowText(t[i + 1]))}
\* the rows (0-based) with at least 3 cells whose first three are a date triple
DateRowsOf(t) == {j \in 0..(Len(t) - 1) : Len(t[j + 1]) >= 3 /\ IsDateTriple(t[j + 1], 1)}

\* C8 as stated: the window of an anchor row is the 4 rows starting at it.
C8_AnchorWindow_Original ==
    Returned("extract_initial_date") =>
        LET t    == call.table
            hits == {j \in DateRowsOf(t) :
                        \E i \in DateAnchors(t) : i <= j /\ j <= i + 3}
        IN  /\ hits # {} => ret = TripleString(t[SetMin(hits) + 1], 1)
            /\ ret = << >> => hits = {}

\* C8: the window of an anchor row among the first 12 is the rows starting at it,
\* at most 4, that lie within the first 12 rows of the table. Whenever some
\* window holds a row with at least 3 cells starting with a (digits, month,
\* digits) triple, extract_initial_date returns the "D Mon YYYY" string of the
\* first such row; it returns "" only when no window holds one.
C8_AnchorWindow ==
    Returned("extract_initial_date") =>
        LET t    == call.table
            hits == {j \in DateRowsOf(t) :
                        /\ j < 12
                        /\ \E i \in DateAnchors(t) : i <= j /\ j <= i + 3}
        IN  /\ hits # {} => ret = TripleString(t[SetMin(hits) + 1], 1)
            /\ ret = << >> => hits = {}

\* C8 witness: the anchor row is row 10 and carries no date, row 11 is dated
\* 2 Feb 2024 and row 12 is dated 1 Jan 2024; the result is 2 Feb 2024.
C8_Witness ==
    /\ Returned("extract_initial_date")
    /\ call.table = Pad(10) \o <<AnchorRow, DateRow1, AnchorDateRow>>
    /\ ret = Date2Feb

\* the rows (0-based) among the first 12 whose text, cells trimmed, holds an
\* anchor phrase
StartAnchors(t) ==
    {i \in 0..(MinOf(Len(t), 12) - 1) : HasAnchor(StartRowText(t[i + 1]))}
\* the rows (0-based) from a + 3 on that are not fully blank
NotBlankFrom(t, a) == {j \in (a + 3)..(Len(t) - 1) : ~AllEmpty(t[j + 1])}

\* C9: with no anchor row among the first 12 the start index is 0; otherwise,
\* with a the first anchor row, it is the first index >= a + 3 whose row is not
\* fully blank, when there is one; and clean_page_transactions emits no
\* transaction of a row below the start index, whatever rows a, a+1, a+2 hold.
C9_StartIndex ==
    /\ Returned("find_transaction_start_index") =>
          LET t == call.table
          IN  IF StartAnchors(t) = {} THEN ret = 0
              ELSE LET a == SetMin(StartAnchors(t))
                   IN  /\ ret >= a + 3
                       /\ NotBlankFrom(t, a) # {} => ret = SetMin(NotBlankFrom(t, a))
    /\ Returned("clean_page_transactions") =>
          LET t == call.table
          IN  StartAnchors(t) # {} =>
                LET a     == SetMin(StartAnchors(t))
                    start == IF NotBlankFrom(t, a) # {}
                             THEN SetMin(NotBlankFrom(t, a)) ELSE a + 3
                IN  \A k \in 1..Len(ret) : ret[k].row >= start

\* C9 witness: the anchor is row 0, rows 1 and 2 are dated, row 3 is blank and
\* row 4 is not; the start index is 4.
C9_Witness ==
    /\ Returned("find_transaction_start_index")
    /\ call.table = <<AnchorRow, DateRow1, DateRow2, BlankRow, PlainRow>>
    /\ ret = 4

====
